---- MODULE Spec2Model ----
(***************************************************************************)
(* Model of src/app.py: the attendance ledger (table attendance), the user *)
(* directory (table users), the settings store (table settings) and the    *)
(* two chat handlers feishu_webhook and feishu_callback.                   *)
(*                                                                         *)
(* Every SQLite transaction of the code is one atomic step.  A request is  *)
(* run by one of the server threads in Procs; a request that spans several *)
(* transactions (check_in: SELECT, then INSERT, then register_user) takes  *)
(* several steps and other requests may run in between.  A thread whose    *)
(* request has ended (pc "done") holds the results until it hands them     *)
(* over (Respond); handing over touches nothing another thread can see,    *)
(* so it is taken before any other step.                                   *)
(*                                                                         *)
(* Chinese string literals of the source are written in ASCII:             *)
(*   "office" = 办公室坐班   "field" = 外出拍摄   "home" = 居家办公        *)
(*   "meeting" = 会议中      "daily_work" = 日常工作                       *)
(*   "office_room" = 办公室  "work_completed" = 已完成工作                 *)
(*   "unknown_user" = 未知用户                                             *)
(***************************************************************************)
EXTENDS Integers, Sequences, FiniteSets, TLC

VARIABLES
    attendance,   \* table attendance: sequence of rows in rowid order
    nextId,       \* AUTOINCREMENT counter of attendance.id
    users,        \* table users: sequence of rows in rowid order
    settings,     \* table settings: function key -> value
    now,          \* the wall clock at its latest reading, in ticks
    local,        \* per server thread: the request in progress and its results
    ops,          \* number of requests started so far (bounds the run)
    faults        \* the faults that can occur in this run: a subset of
                  \* {"storage", "network"}

vars == <<attendance, nextId, users, settings, now, local, ops, faults>>

(* ------------------------------ bounds -------------------------------- *)

MaxOps == 2         \* requests per run
MaxClock == 2       \* the clock runs from 0 to MaxClock
TicksPerDay == 2    \* clock ticks in one calendar day
MaxLen == 2         \* length of the lists an admin form encodes

Procs == {1, 2}      \* the server's threads, in the order they are handed requests
Users == {"u1", "u2"}
Progresses == {"all_normal", "blocked"}   \* "all_normal" = 一切正常

(* ------------------------------ values -------------------------------- *)

NULL == "NULL"          \* SQL NULL in a TEXT column
NoTime == -1            \* SQL NULL in a time column

DefaultLocation == "office_room"     \* check_in(..., location="办公室")
DefaultStatus == "office"            \* action_value.get('status', '办公室坐班')
DefaultCompletion == 0               \* action_value.get('completion', 0)
DefaultUserName == "unknown_user"    \* .get('name', '未知用户')
DefaultUserId == ""                  \* .get('user_id', '')
GenericTask == "daily_work"          \* check_in(..., "日常工作", ...)
EveningLabel == "work_completed"     \* evening_status = '已完成工作'

\* Result messages of the ledger functions.
MsgAlready == <<"already_checked_in">>              \* 您今天已经签到过了！
MsgCheckInFailed == <<"check_in_failed_retry">>     \* 签到失败，请重试
MsgNotCheckedIn == <<"not_checked_in">>             \* 您今天还没有签到！
MsgCheckOutFailed == <<"check_out_failed_retry">>   \* 签退失败，请重试
MsgCheckInOk(status, task) == <<"check_in_ok", status, task>>
MsgCheckOutOk(completion) == <<"check_out_ok", ToString(completion)>>

\* The two JSON bodies the handlers answer with, and "no response yet".
AckOk == [code |-> 0, message |-> "ok"]
AckError == [code |-> 500, message |-> "internal error"]
NoResp == [code |-> -1, message |-> "none"]

(* ------------------------------ clock --------------------------------- *)

(* The clock only shows in what date.today() and datetime.now() return.   *)
(* A step that reads it draws the reading t from ClockReadings: any time   *)
(* not before the latest reading.  The runs with faults are runs within    *)
(* one tick of the clock.                                                  *)
ClockReadings == IF faults # {} THEN {now} ELSE now..MaxClock

get_today_date(t) == t \div TicksPerDay
get_current_time(t) == t % TicksPerDay

(* ------------------------------ tables -------------------------------- *)

\* The rows of a table that satisfy a WHERE clause on (user_id, date).
RowsFor(tbl, uid, d) ==
    {i \in 1..Len(tbl) : tbl[i].user_id = uid /\ tbl[i].date = d}

\* A table attendance declared without UNIQUE(user_id, date).
AttendanceUniqueOk_NoConstraint(tbl, uid, d) == TRUE

\* UNIQUE(user_id, date) of table attendance: may a row for (uid, d) be added?
AttendanceUniqueOk(tbl, uid, d) == RowsFor(tbl, uid, d) = {}

\* An INSERT that leaves the location column out of its column list.
NewAttendanceRow_NoLocation(id, uid, uname, d, t, status, task, location, tasks_json) ==
    [id |-> id, user_id |-> uid, user_name |-> uname, date |-> d,
     check_in_time |-> t, check_out_time |-> NoTime,
     morning_status |-> status, evening_status |-> NULL,
     location |-> NULL, task |-> task, tasks_json |-> tasks_json,
     completion |-> 0, progress_status |-> NULL, work_summary |-> NULL]

\* INSERT INTO attendance (...) VALUES (...): the columns the statement names
\* take the given values, the others their declared defaults.  The columns
\* created_at (attendance) and updated_at (settings) are written and never
\* read by the program; the model leaves them out.
NewAttendanceRow(id, uid, uname, d, t, status, task, location, tasks_json) ==
    [id |-> id, user_id |-> uid, user_name |-> uname, date |-> d,
     check_in_time |-> t, check_out_time |-> NoTime,
     morning_status |-> status, evening_status |-> NULL,
     location |-> location, task |-> task, tasks_json |-> tasks_json,
     completion |-> 0, progress_status |-> NULL, work_summary |-> NULL]

\* A check-out that closes only an open record:
\* UPDATE ... WHERE user_id = ? AND date = ? AND check_out_time IS NULL.
CheckOutUpdate_OpenOnly(tbl, uid, d, t, completion, work_summary) ==
    [i \in 1..Len(tbl) |->
        IF tbl[i].user_id = uid /\ tbl[i].date = d /\ tbl[i].check_out_time = NoTime
        THEN [tbl[i] EXCEPT !.check_out_time = t, !.completion = completion,
                            !.evening_status = EveningLabel,
                            !.work_summary = work_summary]
        ELSE tbl[i]]

\* The check-out UPDATE with "WHERE user_id = ?" only.
CheckOutUpdate_AnyDate(tbl, uid, d, t, completion, work_summary) ==
    [i \in 1..Len(tbl) |->
        IF tbl[i].user_id = uid
        THEN [tbl[i] EXCEPT !.check_out_time = t, !.completion = completion,
                            !.evening_status = EveningLabel,
                            !.work_summary = work_summary]
        ELSE tbl[i]]

\* The check-out UPDATE with "WHERE date = ?" only.
CheckOutUpdate_AnyUser(tbl, uid, d, t, completion, work_summary) ==
    [i \in 1..Len(tbl) |->
        IF tbl[i].date = d
        THEN [tbl[i] EXCEPT !.check_out_time = t, !.completion = completion,
                            !.evening_status = EveningLabel,
                            !.work_summary = work_summary]
        ELSE tbl[i]]

\* UPDATE attendance SET check_out_time, completion, evening_status,
\* work_summary WHERE user_id = ? AND date = ?
CheckOutUpdate(tbl, uid, d, t, completion, work_summary) ==
    [i \in 1..Len(tbl) |->
        IF tbl[i].user_id = uid /\ tbl[i].date = d
        THEN [tbl[i] EXCEPT !.check_out_time = t, !.completion = completion,
                            !.evening_status = EveningLabel,
                            !.work_summary = work_summary]
        ELSE tbl[i]]

\* update_progress written with the upsert the other tables use:
\* INSERT OR REPLACE INTO attendance (user_id, date, progress_status).
ProgressUpdate_Replace(tbl, uid, d, progress_status) ==
    Append(SelectSeq(tbl, LAMBDA r : ~(r.user_id = uid /\ r.date = d)),
           [id |-> 0, user_id |-> uid, user_name |-> NULL, date |-> d,
            check_in_time |-> NoTime, check_out_time |-> NoTime,
            morning_status |-> NULL, evening_status |-> NULL,
            location |-> NULL, task |-> NULL, tasks_json |-> <<>>,
            completion |-> 0, progress_status |-> progress_status,
            work_summary |-> NULL])

\* A progress update whose WHERE clause names the date only:
\* UPDATE attendance SET progress_status = ? WHERE date = ?
ProgressUpdate_AnyUser(tbl, uid, d, progress_status) ==
    [i \in 1..Len(tbl) |->
        IF tbl[i].date = d
        THEN [tbl[i] EXCEPT !.progress_status = progress_status]
        ELSE tbl[i]]

\* UPDATE attendance SET progress_status = ? WHERE user_id = ? AND date = ?
ProgressUpdate(tbl, uid, d, progress_status) ==
    [i \in 1..Len(tbl) |->
        IF tbl[i].user_id = uid /\ tbl[i].date = d
        THEN [tbl[i] EXCEPT !.progress_status = progress_status]
        ELSE tbl[i]]

\* The statement on a table users declared without PRIMARY KEY: every
\* registration adds a row.
UsersUpsert_NoKey(tbl, uid, uname) ==
    Append(tbl, [user_id |-> uid, user_name |-> uname, is_active |-> 1])

\* INSERT OR REPLACE INTO users (user_id, user_name, is_active) VALUES (?, ?, 1):
\* the row with the same primary key is deleted and the new row is added.
UsersUpsert(tbl, uid, uname) ==
    Append(SelectSeq(tbl, LAMBDA r : r.user_id # uid),
           [user_id |-> uid, user_name |-> uname, is_active |-> 1])

(* ------------------------------ settings ------------------------------ *)
(* A stored value is a text: a sequence of tokens.  json.dumps of a list   *)
(* of strings is "[", the quoted items separated by ",", and "]"; any      *)
(* other text is one token of raw characters.                              *)

Chars(c) == << <<"chars", c>> >>
LBracket == <<"punct", "[">>
RBracket == <<"punct", "]">>
Comma == <<"punct", ",">>

RECURSIVE DumpItems(_)
DumpItems(list) ==
    IF list = <<>> THEN <<>>
    ELSE IF Len(list) = 1 THEN << <<"str", list[1]>> >>
    ELSE << <<"str", list[1]>>, Comma >> \o DumpItems(Tail(list))

\* json.dumps(list of strings)
json_dumps(list) == <<LBracket>> \o DumpItems(list) \o <<RBracket>>

\* The raw texts that are JSON documents on their own (numbers, literals).
JsonScalars == {"500", "5", "true", "false", "null"}

\* Does text[i..j] hold items separated by commas?
RECURSIVE IsItems(_, _, _)
IsItems(text, i, j) ==
    /\ i <= j
    /\ text[i][1] = "str"
    /\ \/ i = j
       \/ i + 1 < j /\ text[i + 1] = Comma /\ IsItems(text, i + 2, j)

RECURSIVE LoadItems(_, _, _)
LoadItems(text, i, j) ==
    IF i > j THEN <<>> ELSE <<text[i][2]>> \o LoadItems(text, i + 2, j)

\* json.loads(text): the decoded value, or "raises" when text is no JSON.
json_loads(text) ==
    LET n == Len(text)
    IN  IF n >= 2 /\ text[1] = LBracket /\ text[n] = RBracket
           /\ (n = 2 \/ IsItems(text, 2, n - 1))
        THEN [kind |-> "list", list |-> LoadItems(text, 2, n - 1)]
        ELSE IF n = 1 /\ text[1][1] = "chars" /\ text[1][2] \in JsonScalars
        THEN [kind |-> "scalar", text |-> text]
        ELSE [kind |-> "raises", text |-> text]

\* check_in(..., tasks_json="[]")
DefaultTasksJson == json_dumps(<<>>)

DefaultTaskTags == <<"video_edit", "copywriting", "shooting", "subtitles",
                     "cover_design", "publishing">>
DefaultStatusOptions == <<"office", "field", "home", "meeting">>

\* init_db, lines 84-100
default_settings ==
    [bot_name |-> Chars("attendance helper"),
     welcome_message |-> Chars("hello, I am the attendance helper"),
     morning_time |-> Chars("09:00"),
     noon_time |-> Chars("13:00"),
     evening_time |-> Chars("18:00"),
     report_time |-> Chars("20:00"),
     week_report_time |-> Chars("18:00"),
     month_report_time |-> Chars("18:00"),
     task_tags |-> json_dumps(DefaultTaskTags),
     status_options |-> json_dumps(DefaultStatusOptions),
     schedule_enabled |-> Chars("true"),
     company_location |-> Chars(""),
     company_lat |-> Chars(""),
     company_lng |-> Chars(""),
     checkin_radius |-> Chars("500")]

\* init_db seeding with INSERT OR REPLACE: every default is written again.
init_db_Replace(tbl) ==
    [k \in DOMAIN tbl \cup DOMAIN default_settings |->
        IF k \in DOMAIN default_settings THEN default_settings[k] ELSE tbl[k]]

\* init_db, lines 102-103, on the settings table: INSERT OR IGNORE of every
\* default, so a key that has a row keeps it.  (The CREATE TABLE IF NOT
\* EXISTS statements of lines 44-81 leave existing tables as they are.)
init_db(tbl) ==
    [k \in DOMAIN tbl \cup DOMAIN default_settings |->
        IF k \in DOMAIN tbl THEN tbl[k] ELSE default_settings[k]]

\* get_all_settings, lines 133-147: every key with its value decoded, or
\* the raw text when decoding raises.
get_all_settings(tbl) ==
    [k \in DOMAIN tbl |->
        LET v == json_loads(tbl[k])
        IN  IF v.kind = "raises" THEN [kind |-> "raw", text |-> tbl[k]]
            ELSE v]

\* get_setting, lines 115-122: the stored text of the key, or the default.
get_setting(tbl, key, default) == IF key \in DOMAIN tbl THEN tbl[key] ELSE default

\* set_setting written as DELETE FROM settings followed by the INSERT.
set_setting_DeleteAll(tbl, key, value) == [k \in {key} |-> value]

\* set_setting written with the INSERT OR IGNORE of init_db: a stored key
\* keeps its value.
set_setting_Ignore(tbl, key, value) ==
    [k \in DOMAIN tbl \cup {key} |-> IF k \in DOMAIN tbl THEN tbl[k] ELSE value]

\* set_setting, lines 124-131: INSERT OR REPLACE of the key's row.
set_setting(tbl, key, value) ==
    [k \in DOMAIN tbl \cup {key} |-> IF k = key THEN value ELSE tbl[k]]

(* --------------------------- JSON payloads ---------------------------- *)
(* A parsed JSON value.  An object (a Python dict) is a record of its      *)
(* keys; a value that is no object is a record with the one field jkind:   *)
(* null (Python None), or any other non-object value (a list, a number).   *)
(* The message text, whose type the handler relies on, is a jkind "str"    *)
(* record holding its tokens; the other leaves are plain TLA+ values.      *)

EmptyDict == [k \in {} |-> NULL]
JNull == [jkind |-> "null"]
JOther == [jkind |-> "nondict"]

IsDict(x) == "jkind" \notin DOMAIN x

IsStr(x) == ~IsDict(x) /\ x.jkind = "str"
JStr(c) == [jkind |-> "str", chars |-> c]

\* Python truthiness of a parsed body: None and {} are falsy.
Falsy(x) == IF IsDict(x) THEN DOMAIN x = {} ELSE x.jkind = "null"

\* dict.get(key, default)
Get(d, key, default) == IF key \in DOMAIN d THEN d[key] ELSE default

(* -------------------------- request threads --------------------------- *)

NoRet == [ok |-> FALSE, msg |-> <<>>]

\* A thread that handles no request and holds no result.
IdleLocal ==
    [pc |-> "idle",
     req |-> "none",        \* the entry point called
     call |-> "none",       \* the ledger function entered, if any
     fault |-> "none",      \* the latest storage fault the request met
     user_id |-> "", user_name |-> "", status |-> "", task |-> "",
     location |-> "", tasks_json |-> <<>>,
     completion |-> 0, work_summary |-> "", progress_status |-> "",
     today |-> 0, current_time |-> 0,
     returned |-> FALSE,    \* the ledger function returned normally
     raised |-> FALSE,      \* an exception left the ledger function
     ret |-> NoRet,         \* the (success, message) pair it returned
     resp |-> NoResp,       \* the handler's HTTP response body
     text |-> <<>>,         \* feishu_webhook: the normalized message text
     statuses |-> <<>>,     \* build_daily_report: the rows read so far
     prev_check_out |-> -1, \* check_out: the check-out time its UPDATE overwrote
     net |-> "ok",          \* what the outbound POST of this request meets
     sent |-> <<>>,         \* outbound messages posted by this request
     send_errors |-> 0,     \* failures logged by send_feishu_message
     logged |-> 0]          \* exceptions logged by an except branch

\* The endpoint of the outbound POST, line 20 (the built-in default).
FEISHU_WEBHOOK_URL == "hook_url"

\* What an outbound POST can meet: the platform answers code 0, it answers
\* another code, or the transport fails (requests.post or .json() raises).
NetSet == IF "network" \in faults THEN {"ok", "nonzero", "transport"} ELSE {"ok"}

\* send_feishu_message without its try block: a transport failure raises
\* and ends the request in the handler's except branch.
send_feishu_message_Raises(l, message) ==
    IF l.net = "transport"
    THEN [l EXCEPT !.sent = Append(@, message), !.logged = @ + 1,
                   !.resp = [code |-> 500, message |-> "internal error"]]
    ELSE [l EXCEPT !.sent = Append(@, message)]

\* send_feishu_message with one retry: a POST that fails or is answered
\* with a non-zero code is posted a second time.
send_feishu_message_Retry(l, message) ==
    [l EXCEPT !.sent = IF l.net = "ok" THEN Append(@, message)
                       ELSE Append(Append(@, message), message),
              !.send_errors = IF l.net = "transport" THEN @ + 1 ELSE @]

\* send_feishu_message, lines 151-160: one POST of the message.  A raised
\* exception is caught and logged; the caller gets True or False.
send_feishu_message(l, message) ==
    [l EXCEPT !.sent = Append(@, message),
              !.send_errors = IF l.net = "transport" THEN @ + 1 ELSE @]

\* The envelope of a text message, line 167.
TextMessage(content) == [msg_type |-> "text", content |-> content]

\* send_text_message, lines 162-168
send_text_message(l, content) ==
    IF FEISHU_WEBHOOK_URL = "" THEN l
    ELSE send_feishu_message(l, TextMessage(content))

\* An except branch that logs and answers the success acknowledgment.
HandlerExcept_AckOk(l) ==
    [l EXCEPT !.pc = "done", !.logged = @ + 1,
              !.resp = [code |-> 0, message |-> "ok"]]

\* The handler's "except Exception" branch: log and answer code 500.
HandlerExcept(l) ==
    [l EXCEPT !.pc = "done", !.logged = @ + 1, !.resp = AckError]

\* A ledger function returns (ok, msg) to its caller.  feishu_callback then
\* sends "@name msg" and acknowledges; a direct caller just gets the pair.
LedgerReturn(l, ok, msg) ==
    IF l.req = "feishu_callback"
    THEN send_text_message(
            [l EXCEPT !.pc = "done", !.returned = TRUE,
                      !.ret = [ok |-> ok, msg |-> msg],
                      !.resp = AckOk],
            [kind |-> "mention", name |-> l.user_name, msg |-> msg])
    ELSE [l EXCEPT !.pc = "done", !.returned = TRUE,
                   !.ret = [ok |-> ok, msg |-> msg]]

\* An exception leaves a ledger function (raised outside its try block).
LedgerRaise(l) ==
    IF l.req = "feishu_callback"
    THEN HandlerExcept(l)
    ELSE [l EXCEPT !.pc = "done", !.raised = TRUE]

\* check_in/check_out without their except branch: the exception leaves.
LedgerExcept_Propagates(l, msg) == LedgerRaise(l)

\* The "except Exception as e: logger.error(...)" branch of check_in/check_out.
LedgerExcept(l, msg) == LedgerReturn([l EXCEPT !.logged = @ + 1], FALSE, msg)

\* Storage faults a statement can meet: none, the connection cannot be
\* opened (get_db raises), or the statement fails (execute/commit raises).
FaultSet ==
    IF "storage" \in faults THEN {"none", "connect", "execute"} ELSE {"none"}

(* --------------------------- ledger: check_in ------------------------- *)

\* The calls of check_in that are tried: either user as "alice" with the
\* default location and task list, and u1 also as "bob" with arguments that
\* differ in every field.
CheckInArgs ==
    {[user_id |-> u, user_name |-> "alice", status |-> "office",
      task |-> "daily_work", location |-> DefaultLocation,
      tasks_json |-> DefaultTasksJson] : u \in Users}
    \cup
    {[user_id |-> "u1", user_name |-> "bob", status |-> "field",
      task |-> "edit_video", location |-> "studio",
      tasks_json |-> json_dumps(<<"edit_video">>)]}

\* A thread takes up a request: its previous results are dropped.
StartRequest(req, a) ==
    [IdleLocal EXCEPT !.req = req,
                      !.user_id = a.user_id, !.user_name = a.user_name,
                      !.status = a.status, !.task = a.task,
                      !.location = a.location, !.tasks_json = a.tasks_json]

\* check_in without its SELECT: the call always goes on to the INSERT.
check_in_select_NoLookup(l, f, t) ==
    LET lc == [l EXCEPT !.call = "check_in", !.fault = f]
    IN  CASE f = "connect" -> LedgerRaise(lc)
          [] f = "execute" -> LedgerExcept(lc, MsgCheckInFailed)
          [] OTHER -> [lc EXCEPT !.pc = "check_in_insert",
                                 !.today = get_today_date(t),
                                 !.current_time = get_current_time(t)]

\* check_in, lines 210-219: open the connection, read the date and the time,
\* SELECT the row of (user_id, today); an existing row ends the call.
check_in_select(l, f, t) ==
    LET today == get_today_date(t)
        current_time == get_current_time(t)
        lc == [l EXCEPT !.call = "check_in", !.fault = f]
    IN  CASE f = "connect" -> LedgerRaise(lc)
          [] f = "execute" -> LedgerExcept(lc, MsgCheckInFailed)
          [] OTHER ->
                IF RowsFor(attendance, l.user_id, today) # {}
                THEN LedgerReturn(lc, FALSE, MsgAlready)
                ELSE [lc EXCEPT !.pc = "check_in_insert", !.today = today,
                                !.current_time = current_time]

\* check_in written with INSERT OR REPLACE: the row of (user_id, date) is
\* deleted and the new row is added.
check_in_insert_Replace(p, f) ==
    LET l == local[p]
        row == NewAttendanceRow(nextId, l.user_id, l.user_name, l.today,
                                l.current_time, l.status, l.task, l.location,
                                l.tasks_json)
    IN  IF f = "execute"
        THEN /\ local' = [local EXCEPT ![p] =
                    LedgerExcept([l EXCEPT !.fault = f], MsgCheckInFailed)]
             /\ UNCHANGED <<attendance, nextId>>
        ELSE /\ attendance' = Append(
                    SelectSeq(attendance,
                              LAMBDA r : ~(r.user_id = l.user_id /\ r.date = l.today)),
                    row)
             /\ nextId' = nextId + 1
             /\ local' = [local EXCEPT ![p].pc = "check_in_register"]

\* check_in, lines 221-225: INSERT the row and commit.  The statement fails
\* when the storage fails or when UNIQUE(user_id, date) rejects the row.
check_in_insert(p, f) ==
    LET l == local[p]
        row == NewAttendanceRow(nextId, l.user_id, l.user_name, l.today,
                                l.current_time, l.status, l.task, l.location,
                                l.tasks_json)
    IN  IF f = "execute" \/ ~AttendanceUniqueOk(attendance, l.user_id, l.today)
        THEN /\ local' = [local EXCEPT ![p] =
                    LedgerExcept([l EXCEPT !.fault = f], MsgCheckInFailed)]
             /\ UNCHANGED <<attendance, nextId>>
        ELSE /\ attendance' = Append(attendance, row)
             /\ nextId' = nextId + 1
             /\ local' = [local EXCEPT ![p].pc = "check_in_register"]

\* register_user, lines 194-206, as a function of the users table: the new
\* table and the value returned.  get_db() is outside the try block, so a
\* connection fault raises; a failing statement is swallowed (returns False).
register_user(tbl, uid, uname, f) ==
    CASE f = "connect" -> [raised |-> TRUE, result |-> FALSE, users |-> tbl]
      [] f = "execute" -> [raised |-> FALSE, result |-> FALSE, users |-> tbl]
      [] OTHER -> [raised |-> FALSE, result |-> TRUE,
                   users |-> UsersUpsert(tbl, uid, uname)]

\* The label of a fault met inside register_user.
RegisterFault(f) == IF f = "connect" THEN "register_connect" ELSE "register_execute"

\* check_in, lines 226-227: register the user, return success.  An exception
\* raised by register_user is caught by check_in's own except branch.
check_in_register(p, f) ==
    LET l == [local[p] EXCEPT !.fault =
                    IF f = "none" THEN "none" ELSE RegisterFault(f)]
        r == register_user(users, l.user_id, l.user_name, f)
    IN  /\ users' = r.users
        /\ local' = [local EXCEPT ![p] =
                IF r.raised
                THEN LedgerExcept(l, MsgCheckInFailed)
                ELSE LedgerReturn(l, TRUE, MsgCheckInOk(l.status, l.task))]

(* ----------------- ledger: check_out, update_progress ----------------- *)

\* check_out, lines 234-257, one transaction: the thread's state after the
\* call and the attendance table after it.
check_out(l, uid, completion, work_summary, f, t) ==
    LET today == get_today_date(t)
        current_time == get_current_time(t)
        rowcount == Cardinality(RowsFor(attendance, uid, today))
        lc == [l EXCEPT !.call = "check_out", !.fault = f, !.user_id = uid,
                        !.completion = completion,
                        !.work_summary = work_summary]
        rows == RowsFor(attendance, uid, today)
        lt == [lc EXCEPT !.today = today, !.current_time = current_time,
                         !.prev_check_out =
                             IF rows = {} THEN NoTime
                             ELSE attendance[CHOOSE i \in rows : TRUE].check_out_time]
    IN  CASE f = "connect" -> [l |-> LedgerRaise(lc), attendance |-> attendance]
          [] f = "execute" ->
                [l |-> LedgerExcept(lc, MsgCheckOutFailed), attendance |-> attendance]
          [] OTHER ->
                [l |-> IF rowcount = 0
                       THEN LedgerReturn(lt, FALSE, MsgNotCheckedIn)
                       ELSE LedgerReturn(lt, TRUE, MsgCheckOutOk(completion)),
                 attendance |-> CheckOutUpdate(attendance, uid, today,
                                               current_time, completion,
                                               work_summary)]

\* update_progress, lines 259-271: try/finally without except, so every
\* fault raises; otherwise the UPDATE runs and True is returned.
update_progress(l, uid, progress_status, f, t) ==
    LET today == get_today_date(t)
        lc == [l EXCEPT !.call = "update_progress", !.fault = f, !.user_id = uid,
                        !.progress_status = progress_status]
    IN  IF f # "none"
        THEN [l |-> LedgerRaise(lc), attendance |-> attendance]
        ELSE [l |-> LedgerReturn(lc, TRUE, <<>>),
              attendance |-> ProgressUpdate(attendance, uid, today,
                                            progress_status)]

(* --------------------------- daily report ----------------------------- *)

\* ORDER BY check_in_time: insert row r into the sorted sequence, after the
\* rows with the same time.
RECURSIVE InsertByCheckIn(_, _)
InsertByCheckIn(sorted, r) ==
    IF sorted = <<>> THEN <<r>>
    ELSE IF r.check_in_time < Head(sorted).check_in_time
    THEN <<r>> \o sorted
    ELSE <<Head(sorted)>> \o InsertByCheckIn(Tail(sorted), r)

RECURSIVE SortByCheckIn(_)
SortByCheckIn(rows) ==
    IF rows = <<>> THEN <<>>
    ELSE InsertByCheckIn(SortByCheckIn(SubSeq(rows, 1, Len(rows) - 1)),
                         rows[Len(rows)])

\* get_today_status, lines 273-304
get_today_status(tbl, today) ==
    LET rows == SortByCheckIn(SelectSeq(tbl, LAMBDA r : r.date = today))
    IN  [i \in 1..Len(rows) |->
            [name |-> rows[i].user_name,
             check_in |-> rows[i].check_in_time,
             check_out |-> rows[i].check_out_time,
             morning_status |-> rows[i].morning_status,
             evening_status |-> rows[i].evening_status,
             task |-> rows[i].task,
             location |-> rows[i].location,
             completion |-> rows[i].completion,
             progress_status |-> rows[i].progress_status,
             work_summary |-> rows[i].work_summary,
             tasks |-> json_loads(rows[i].tasks_json).list]]

\* get_user_status, lines 306-331: the snapshot of today's row, or None.
get_user_status(tbl, uid, today) ==
    LET rows == SelectSeq(tbl, LAMBDA r : r.user_id = uid /\ r.date = today)
    IN  IF rows = <<>> THEN [found |-> FALSE]
        ELSE [found |-> TRUE,
              name |-> rows[1].user_name,
              check_in |-> rows[1].check_in_time,
              check_out |-> rows[1].check_out_time,
              status |-> rows[1].morning_status,
              task |-> rows[1].task,
              completion |-> rows[1].completion,
              progress_status |-> rows[1].progress_status]

\* get_all_users, lines 333-342
get_all_users(tbl) ==
    LET rows == SelectSeq(tbl, LAMBDA r : r.is_active = 1)
    IN  [i \in 1..Len(rows) |-> [id |-> rows[i].user_id, name |-> rows[i].user_name]]

\* build_daily_report, lines 344-372: the text as its two sections, one
\* entry per line group.
build_daily_report(statuses, all_users, today) ==
    LET checked_in_names == {statuses[i].name : i \in 1..Len(statuses)}
        absent == SelectSeq(all_users, LAMBDA u : u.name \notin checked_in_names)
    IN  [today |-> today,
         checked_in |->
            [i \in 1..Len(statuses) |->
                [name |-> statuses[i].name,
                 morning_status |-> statuses[i].morning_status,
                 task_text |-> IF statuses[i].task \in {"", NULL}
                               THEN "task_not_filled" ELSE statuses[i].task,
                 progress_ok |-> statuses[i].progress_status = "all_normal",
                 checked_out |-> statuses[i].check_out # NoTime,
                 completion |-> statuses[i].completion]],
         not_checked_in |-> [i \in 1..Len(absent) |-> absent[i].name]]

(* -------------------------- feishu_callback --------------------------- *)

\* The operator of a button press: a user, a user without the name field,
\* or a value that is no object.
Operators ==
    {[user_id |-> "u1", name |-> "alice"], [user_id |-> "u2"], JOther}

ActionValues ==
    {[action |-> "checkin", status |-> "field"],
     [action |-> "checkout", completion |-> 75],
     [action |-> "checkin"], [action |-> "checkout"], [action |-> "noop"],
     EmptyDict, JOther}

CallbackData ==
    {[type |-> "interactive", action |-> [value |-> v], operator |-> o] :
        v \in ActionValues, o \in Operators}
    \cup {[type |-> "interactive", action |-> JOther,
           operator |-> [user_id |-> "u1", name |-> "alice"]],
          [type |-> "interactive",
           action |-> [value |-> [action |-> "checkout", completion |-> 75]]],
          [type |-> "interactive"], [type |-> "url_verification"],
          EmptyDict, JNull, JOther}

\* request.get_json(): the parsed body, or an exception for a malformed one.
CallbackRequests ==
    {[parse_ok |-> TRUE, data |-> d] : d \in CallbackData}
    \cup {[parse_ok |-> FALSE, data |-> JNull]}

\* feishu_callback calling check_in without the location argument: the
\* record gets check_in's default location.
feishu_callback_DefaultLocation(req, f, t, o) ==
    LET l0 == [IdleLocal EXCEPT !.req = "feishu_callback", !.net = o]
        data == req.data
        except == [l |-> HandlerExcept(l0), attendance |-> attendance,
                   clock_read |-> FALSE]
        ack == [l |-> [l0 EXCEPT !.pc = "done", !.resp = AckOk],
                attendance |-> attendance, clock_read |-> FALSE]
    IN  IF ~req.parse_ok \/ ~IsDict(data) THEN except
        ELSE IF Get(data, "type", NULL) # "interactive" THEN ack
        ELSE LET action == Get(data, "action", EmptyDict) IN
        IF ~IsDict(action) THEN except
        ELSE LET action_value == Get(action, "value", EmptyDict)
                 operator == Get(data, "operator", EmptyDict) IN
        IF ~IsDict(operator) \/ ~IsDict(action_value) THEN except
        ELSE LET user_id == Get(operator, "user_id", DefaultUserId)
                 user_name == Get(operator, "name", DefaultUserName)
                 act == Get(action_value, "action", NULL)
                 l1 == [l0 EXCEPT !.user_id = user_id, !.user_name = user_name]
        IN  CASE act = "checkin" ->
                    LET status == Get(action_value, "status", DefaultStatus)
                    IN  [l |-> check_in_select(
                                   [l1 EXCEPT !.status = status,
                                              !.task = GenericTask,
                                              !.location = DefaultLocation,
                                              !.tasks_json = DefaultTasksJson],
                                   f, t),
                         attendance |-> attendance,
                         clock_read |-> f # "connect"]
              [] act = "checkout" ->
                    LET r == check_out(l1, user_id,
                                       Get(action_value, "completion",
                                           DefaultCompletion), "", f, t)
                    IN  [l |-> r.l, attendance |-> r.attendance,
                         clock_read |-> f # "connect"]
              [] OTHER -> [l |-> [l1 EXCEPT !.pc = "done", !.resp = AckOk],
                           attendance |-> attendance, clock_read |-> FALSE]

\* feishu_callback with "else" for "elif": every named action other than
\* "checkin" is taken as a check-out.
feishu_callback_ElseCheckOut(req, f, t, o) ==
    LET l0 == [IdleLocal EXCEPT !.req = "feishu_callback", !.net = o]
        data == req.data
        except == [l |-> HandlerExcept(l0), attendance |-> attendance,
                   clock_read |-> FALSE]
        ack == [l |-> [l0 EXCEPT !.pc = "done", !.resp = AckOk],
                attendance |-> attendance, clock_read |-> FALSE]
    IN  IF ~req.parse_ok \/ ~IsDict(data) THEN except
        ELSE IF Get(data, "type", NULL) # "interactive" THEN ack
        ELSE LET action == Get(data, "action", EmptyDict) IN
        IF ~IsDict(action) THEN except
        ELSE LET action_value == Get(action, "value", EmptyDict)
                 operator == Get(data, "operator", EmptyDict) IN
        IF ~IsDict(operator) \/ ~IsDict(action_value) THEN except
        ELSE LET user_id == Get(operator, "user_id", DefaultUserId)
                 user_name == Get(operator, "name", DefaultUserName)
                 act == Get(action_value, "action", NULL)
                 l1 == [l0 EXCEPT !.user_id = user_id, !.user_name = user_name]
        IN  CASE act = "checkin" ->
                    LET status == Get(action_value, "status", DefaultStatus)
                    IN  [l |-> check_in_select(
                                   [l1 EXCEPT !.status = status,
                                              !.task = GenericTask,
                                              !.location = status,
                                              !.tasks_json = DefaultTasksJson],
                                   f, t),
                         attendance |-> attendance,
                         clock_read |-> f # "connect"]
              [] act # "checkin" /\ act # NULL ->
                    LET r == check_out(l1, user_id,
                                       Get(action_value, "completion",
                                           DefaultCompletion), "", f, t)
                    IN  [l |-> r.l, attendance |-> r.attendance,
                         clock_read |-> f # "connect"]
              [] OTHER -> [l |-> [l1 EXCEPT !.pc = "done", !.resp = AckOk],
                           attendance |-> attendance, clock_read |-> FALSE]

\* feishu_callback, lines 788-816, up to the end of the first transaction:
\* the thread's state, the attendance table after it, and whether the clock
\* was read (a ledger function was entered and opened its connection).
feishu_callback(req, f, t, o) ==
    LET l0 == [IdleLocal EXCEPT !.req = "feishu_callback", !.net = o]
        data == req.data
        except == [l |-> HandlerExcept(l0), attendance |-> attendance,
                   clock_read |-> FALSE]
        ack == [l |-> [l0 EXCEPT !.pc = "done", !.resp = AckOk],
                attendance |-> attendance, clock_read |-> FALSE]
    IN  IF ~req.parse_ok \/ ~IsDict(data) THEN except
        ELSE IF Get(data, "type", NULL) # "interactive" THEN ack
        ELSE LET action == Get(data, "action", EmptyDict) IN
        IF ~IsDict(action) THEN except
        ELSE LET action_value == Get(action, "value", EmptyDict)
                 operator == Get(data, "operator", EmptyDict) IN
        IF ~IsDict(operator) \/ ~IsDict(action_value) THEN except
        ELSE LET user_id == Get(operator, "user_id", DefaultUserId)
                 user_name == Get(operator, "name", DefaultUserName)
                 act == Get(action_value, "action", NULL)
                 l1 == [l0 EXCEPT !.user_id = user_id, !.user_name = user_name]
        IN  CASE act = "checkin" ->
                    LET status == Get(action_value, "status", DefaultStatus)
                    IN  [l |-> check_in_select(
                                   [l1 EXCEPT !.status = status,
                                              !.task = GenericTask,
                                              !.location = status,
                                              !.tasks_json = DefaultTasksJson],
                                   f, t),
                         attendance |-> attendance,
                         clock_read |-> f # "connect"]
              [] act = "checkout" ->
                    LET r == check_out(l1, user_id,
                                       Get(action_value, "completion",
                                           DefaultCompletion), "", f, t)
                    IN  [l |-> r.l, attendance |-> r.attendance,
                         clock_read |-> f # "connect"]
              [] OTHER -> [l |-> [l1 EXCEPT !.pc = "done", !.resp = AckOk],
                           attendance |-> attendance, clock_read |-> FALSE]

(* --------------------------- feishu_webhook --------------------------- *)
(* A message text is a sequence of tokens; " " is white space.  The        *)
(* command words: "qiandao" = 签到, "qiantui" = 签退, "ribao" = 日报,      *)
(* "bangzhu" = 帮助.                                                       *)

CheckInWords == {<<"qiandao">>, <<"/checkin">>, <<"/qiandao">>}
CheckOutWords == {<<"qiantui">>, <<"/checkout">>, <<"/qiantui">>}
ReportWords == {<<"ribao">>, <<"/report">>, <<"/ribao">>}
HelpWords == {<<"bangzhu">>, <<"/help">>}

RECURSIVE LStrip(_)
LStrip(t) == IF t # <<>> /\ Head(t) = " " THEN LStrip(Tail(t)) ELSE t

RECURSIVE RStrip(_)
RStrip(t) ==
    IF t # <<>> /\ t[Len(t)] = " " THEN RStrip(SubSeq(t, 1, Len(t) - 1)) ELSE t

\* str.strip()
Strip(t) == RStrip(LStrip(t))

Contents ==
    {<<" ", "qiandao", " ">>, <<"/checkout">>, <<"ribao">>, <<"/help">>,
     <<"xyz123">>}

Senders ==
    {[user_id |-> "u1", sender_id |-> [name |-> "bob"]],
     [user_id |-> "u2", sender_id |-> [name |-> "alice"]],
     [user_id |-> "u1"], [user_id |-> "u1", sender_id |-> JOther], JOther}

WebhookTexts == {[content |-> JStr(c)] : c \in Contents}

WebhookData ==
    {[msg_type |-> "text", sender |-> sd, text |-> t] :
        sd \in Senders, t \in WebhookTexts}
    \cup {[msg_type |-> "text", sender |-> [user_id |-> "u1"], text |-> t] :
            t \in {JOther, [content |-> JOther], EmptyDict}}
    \cup {[msg_type |-> "text"], [msg_type |-> "image"], EmptyDict, JNull, JOther}

WebhookRequests ==
    {[parse_ok |-> TRUE, data |-> d] : d \in WebhookData}
    \cup {[parse_ok |-> FALSE, data |-> JNull]}

\* The fixed check-in card of lines 723-736 with its four buttons.
CheckInCard(location) ==
    [msg_type |-> "interactive", title |-> "good morning, check in",
     template |-> "blue", location |-> location,
     buttons |-> <<[action |-> "checkin", status |-> "office"],
                   [action |-> "checkin", status |-> "field"],
                   [action |-> "checkin", status |-> "home"],
                   [action |-> "checkin", status |-> "meeting"]>>]

\* The fixed check-out card of lines 741-754.
CheckOutCard ==
    [msg_type |-> "interactive", title |-> "well done, check out",
     template |-> "green",
     buttons |-> <<[action |-> "checkout", completion |-> 25],
                   [action |-> "checkout", completion |-> 50],
                   [action |-> "checkout", completion |-> 75],
                   [action |-> "checkout", completion |-> 100]>>]

\* The envelope of a rich text message, lines 175-183.
RichTextMessage(title, content) ==
    [msg_type |-> "post", title |-> title, content |-> content]

\* send_rich_text_message, lines 170-184
send_rich_text_message(l, title, content) ==
    IF FEISHU_WEBHOOK_URL = "" THEN l
    ELSE send_feishu_message(l, RichTextMessage(title, content))

\* A dispatch whose last branch is the help message: any text that is no
\* other command gets the help text.
webhook_dispatch_HelpForAll(l, f) ==
    LET all == get_all_settings(settings)
        task_tags == Get(all, "task_tags",
                         [kind |-> "list",
                          list |-> <<"video_edit", "copywriting", "shooting">>])
        done == [l EXCEPT !.pc = "done", !.resp = AckOk]
    IN  IF f # "none" THEN HandlerExcept([l EXCEPT !.fault = "settings"])
        ELSE CASE l.text \in CheckInWords ->
                    \* task_tags[:6] raises on a number, a boolean or None
                    IF task_tags.kind = "scalar" THEN HandlerExcept(l)
                    ELSE send_feishu_message(done, CheckInCard(
                              Get(all, "company_location",
                                  [kind |-> "raw", text |-> Chars("address not set")])))
               [] l.text \in CheckOutWords ->
                    send_feishu_message(done, CheckOutCard)
               [] l.text \in ReportWords ->
                    [l EXCEPT !.pc = "report_status"]
               [] OTHER ->
                    send_text_message(done,
                        [kind |-> "help",
                         bot_name |-> Get(all, "bot_name",
                              [kind |-> "raw", text |-> Chars("attendance helper")])])

\* feishu_webhook, lines 717-781: read the settings and dispatch on the text.
\* get_all_settings has no try block: any storage fault raises.
webhook_dispatch(l, f) ==
    LET all == get_all_settings(settings)
        task_tags == Get(all, "task_tags",
                         [kind |-> "list",
                          list |-> <<"video_edit", "copywriting", "shooting">>])
        done == [l EXCEPT !.pc = "done", !.resp = AckOk]
    IN  IF f # "none" THEN HandlerExcept([l EXCEPT !.fault = "settings"])
        ELSE CASE l.text \in CheckInWords ->
                    \* task_tags[:6] raises on a number, a boolean or None
                    IF task_tags.kind = "scalar" THEN HandlerExcept(l)
                    ELSE send_feishu_message(done, CheckInCard(
                              Get(all, "company_location",
                                  [kind |-> "raw", text |-> Chars("address not set")])))
               [] l.text \in CheckOutWords ->
                    send_feishu_message(done, CheckOutCard)
               [] l.text \in ReportWords ->
                    [l EXCEPT !.pc = "report_status"]
               [] l.text \in HelpWords ->
                    send_text_message(done,
                        [kind |-> "help",
                         bot_name |-> Get(all, "bot_name",
                              [kind |-> "raw", text |-> Chars("attendance helper")])])
               [] OTHER ->
                    send_text_message(done,
                        [kind |-> "echo", received |-> l.text,
                         hint |-> "send help for commands"])

\* feishu_webhook, lines 704-781: parse the payload, extract the sender and
\* the text, register the sender (fault f), then read the settings (fault g)
\* and dispatch; o is what the outbound POST of the request will meet.  The thread's state and the users table.  The settings are
\* read in a transaction of their own; it is taken in the same step because
\* it reads nothing the registration or any ledger operation writes.
feishu_webhook(req, f, g, o) ==
    LET l0 == [IdleLocal EXCEPT !.req = "feishu_webhook", !.net = o]
        data == req.data
        except == [l |-> HandlerExcept(l0), users |-> users]
        ack == [l |-> [l0 EXCEPT !.pc = "done", !.resp = AckOk], users |-> users]
    IN  IF ~req.parse_ok THEN except
        ELSE IF Falsy(data) THEN ack
        ELSE IF ~IsDict(data) THEN except
        ELSE IF Get(data, "msg_type", NULL) # "text" THEN ack
        ELSE LET sender == Get(data, "sender", EmptyDict) IN
        IF ~IsDict(sender) THEN except
        ELSE LET sender_id == Get(sender, "sender_id", EmptyDict) IN
        IF ~IsDict(sender_id) THEN except
        ELSE LET text == Get(data, "text", EmptyDict) IN
        IF ~IsDict(text) THEN except
        ELSE LET content == Get(text, "content", JStr(<<>>)) IN
        IF ~IsStr(content) THEN except
        ELSE LET user_id == Get(sender, "user_id", DefaultUserId)
                 user_name == Get(sender_id, "name", DefaultUserName)
                 r == register_user(users, user_id, user_name, f)
        IN  IF r.raised
            THEN [l |-> HandlerExcept([l0 EXCEPT !.fault = RegisterFault(f)]),
                  users |-> users]
            ELSE [l |-> webhook_dispatch(
                            [l0 EXCEPT !.user_id = user_id,
                                       !.user_name = user_name,
                                       !.text = Strip(content.chars),
                                       !.fault = IF f = "none" THEN "none"
                                                 ELSE RegisterFault(f)], g),
                  users |-> r.users]

\* build_daily_report, line 346: get_today_status() in its own transaction.
report_status(l, f, t) ==
    IF f # "none" THEN HandlerExcept([l EXCEPT !.fault = "report"])
    ELSE [l EXCEPT !.pc = "report_users",
                   !.statuses = get_today_status(attendance, get_today_date(t))]

\* build_daily_report, lines 347-372, and lines 760-761: read the users,
\* compose the report, send it, acknowledge.
report_users(l, f, t) ==
    IF f # "none" THEN HandlerExcept([l EXCEPT !.fault = "report"])
    ELSE send_rich_text_message(
            [l EXCEPT !.pc = "done", !.resp = AckOk], "team today",
            build_daily_report(l.statuses, get_all_users(users),
                               get_today_date(t)))

(* ------------------------------ actions ------------------------------- *)

(* The database file outlives the process: init_db creates the tables     *)
(* only if they do not exist and seeds the settings.  A run starts either  *)
(* on a fresh database or on one where an earlier run of the same day left *)
(* the check-in of u2 as "alice" (the row and the users entry written by   *)
(* check_in("u2", "alice", "office", "daily_work") at time 0).             *)
InitialStores ==
    {[attendance |-> <<>>, users |-> <<>>],
     [attendance |-> <<NewAttendanceRow(1, "u2", "alice", 0, 0, "office",
                                         "daily_work", DefaultLocation,
                                         DefaultTasksJson)>>,
      users |-> UsersUpsert(<<>>, "u2", "alice")]}

InitStore(stores) ==
    /\ \E st \in stores :
            /\ attendance = st.attendance
            /\ users = st.users
            /\ nextId = Len(st.attendance) + 1
    /\ settings = default_settings
    /\ now = 0
    /\ local = [p \in Procs |-> IdleLocal]
    /\ ops = 0

Init == InitStore(InitialStores) /\ faults = {}

InitFaults == InitStore(InitialStores) /\ faults = {"storage"}

InitNet == InitStore(InitialStores) /\ faults = {"network"}

\* No thread is waiting to hand over its results.
Quiet == \A q \in Procs : local[q].pc # "done"

\* A thread is free to take the next request; a request goes to the first
\* free thread.
CanStart(p) ==
    /\ Quiet
    /\ local[p].pc = "idle"
    /\ \A q \in Procs : q < p => local[q].pc # "idle"
    /\ ops < MaxOps

\* The thread hands the results of its request to the caller and is free.
Respond(p) ==
    /\ local[p].pc = "done"
    /\ local' = [local EXCEPT ![p] = IdleLocal]
    /\ UNCHANGED <<attendance, nextId, users, settings, now, ops, faults>>

\* check_in(user_id, user_name, status, task, location, tasks_json) is called.
CallCheckIn(p) ==
    /\ CanStart(p)
    /\ \E a \in CheckInArgs, f \in FaultSet, t \in ClockReadings :
            /\ local' = [local EXCEPT ![p] =
                            check_in_select(StartRequest("check_in", a), f, t)]
            /\ now' = IF f = "connect" THEN now ELSE t
    /\ ops' = ops + 1
    /\ UNCHANGED <<attendance, nextId, users, settings, faults>>

CheckInInsert(p) ==
    /\ Quiet
    /\ local[p].pc = "check_in_insert"
    /\ \E f \in FaultSet \ {"connect"} : check_in_insert(p, f)
    /\ UNCHANGED <<users, settings, now, ops, faults>>

CheckInRegister(p) ==
    /\ Quiet
    /\ local[p].pc = "check_in_register"
    /\ \E f \in FaultSet : check_in_register(p, f)
    /\ UNCHANGED <<attendance, nextId, settings, now, ops, faults>>

\* The calls of check_out that are tried.
CheckOutArgs ==
    {[completion |-> 75, work_summary |-> ""],
     [completion |-> 100, work_summary |-> "cut done"]}

\* check_out(user_id, completion, work_summary) is called.
CallCheckOut(p) ==
    /\ CanStart(p)
    /\ \E uid \in Users, a \in CheckOutArgs, f \in FaultSet, t \in ClockReadings :
            LET c == a.completion
                ws == a.work_summary
                r == check_out([IdleLocal EXCEPT !.req = "check_out"],
                               uid, c, ws, f, t)
            IN  /\ local' = [local EXCEPT ![p] = r.l]
                /\ attendance' = r.attendance
                /\ now' = IF f = "connect" THEN now ELSE t
    /\ ops' = ops + 1
    /\ UNCHANGED <<nextId, users, settings, faults>>

\* update_progress(user_id, progress_status) is called.
CallUpdateProgress(p) ==
    /\ CanStart(p)
    /\ \E uid \in Users, ps \in Progresses, f \in FaultSet, t \in ClockReadings :
            LET r == update_progress([IdleLocal EXCEPT !.req = "update_progress"],
                                     uid, ps, f, t)
            IN  /\ local' = [local EXCEPT ![p] = r.l]
                /\ attendance' = r.attendance
                /\ now' = IF f = "connect" THEN now ELSE t
    /\ ops' = ops + 1
    /\ UNCHANGED <<nextId, users, settings, faults>>

\* A POST to /feishu/callback arrives.
FeishuCallback(p) ==
    /\ CanStart(p)
    /\ \E req \in CallbackRequests, f \in FaultSet, t \in ClockReadings,
          o \in NetSet :
            LET r == feishu_callback(req, f, t, o)
            IN  /\ local' = [local EXCEPT ![p] = r.l]
                /\ attendance' = r.attendance
                /\ now' = IF r.clock_read THEN t ELSE now
    /\ ops' = ops + 1
    /\ UNCHANGED <<nextId, users, settings, faults>>

\* A POST to /feishu/webhook arrives.
FeishuWebhook(p) ==
    /\ CanStart(p)
    /\ \E req \in WebhookRequests, f \in FaultSet, g \in FaultSet,
          o \in NetSet :
            LET r == feishu_webhook(req, f, g, o)
            IN  /\ local' = [local EXCEPT ![p] = r.l]
                /\ users' = r.users
    /\ ops' = ops + 1
    /\ UNCHANGED <<attendance, nextId, settings, now, faults>>

ReportStatus(p) ==
    /\ Quiet
    /\ local[p].pc = "report_status"
    /\ \E f \in FaultSet, t \in ClockReadings :
            /\ local' = [local EXCEPT ![p] = report_status(local[p], f, t)]
            /\ now' = IF f = "none" THEN t ELSE now
    /\ UNCHANGED <<attendance, nextId, users, settings, ops, faults>>

ReportUsers(p) ==
    /\ Quiet
    /\ local[p].pc = "report_users"
    /\ \E f \in FaultSet, t \in ClockReadings :
            /\ local' = [local EXCEPT ![p] = report_users(local[p], f, t)]
            /\ now' = IF f = "none" THEN t ELSE now
    /\ UNCHANGED <<attendance, nextId, users, settings, ops, faults>>

\* POST /tasks/save, lines 683-689: one set_setting of the form's field, or
\* of "[]" when the form omits it (form <<>>).  The forms tried: the field
\* omitted, a text that is a JSON number, an encoded list.
SaveForms == {<<>>, Chars("5"), json_dumps(<<"shooting", "subtitles">>)}

SaveTasks ==
    /\ Quiet
    /\ ops < MaxOps
    /\ \E form \in SaveForms :
            settings' = set_setting(settings, "task_tags",
                                    IF form = <<>> THEN json_dumps(<<>>) ELSE form)
    /\ ops' = ops + 1
    /\ UNCHANGED <<attendance, nextId, users, now, local, faults>>

\* The status lists the admin console posts to /status/save.
StatusForms == {json_dumps(<<"remote">>)}

\* save_status, lines 691-697: store the posted text under status_options.
SaveStatus ==
    /\ Quiet
    /\ ops < MaxOps
    /\ \E form \in StatusForms :
            settings' = set_setting(settings, "status_options", form)
    /\ ops' = ops + 1
    /\ UNCHANGED <<attendance, nextId, users, now, local, faults>>

\* A posted form: the submitted fields with their texts.
EmptyForm == [k \in {} |-> <<>>]

\* save_settings storing only the submitted fields: an omitted field keeps
\* its stored value.
save_settings_KeepOmitted(tbl, form) ==
    [k \in DOMAIN tbl \cup (DOMAIN form \cap {"bot_name", "welcome_message",
                                               "company_location",
                                               "checkin_radius",
                                               "schedule_enabled"}) |->
        IF k \in DOMAIN form /\ k \in {"bot_name", "welcome_message",
                                        "company_location", "checkin_radius",
                                        "schedule_enabled"}
        THEN form[k] ELSE tbl[k]]

\* save_settings, lines 663-667: five set_setting calls, each with the
\* submitted field or its fallback.
save_settings(tbl, form) ==
    LET t1 == set_setting(tbl, "bot_name",
                          Get(form, "bot_name", Chars("attendance helper")))
        t2 == set_setting(t1, "welcome_message",
                          Get(form, "welcome_message", Chars("hello")))
        t3 == set_setting(t2, "company_location",
                          Get(form, "company_location", Chars("")))
        t4 == set_setting(t3, "checkin_radius",
                          Get(form, "checkin_radius", Chars("500")))
    IN  set_setting(t4, "schedule_enabled",
                    Get(form, "schedule_enabled", Chars("true")))

\* save_timing, lines 674-679: six set_setting calls.
save_timing(tbl, form) ==
    LET t1 == set_setting(tbl, "morning_time",
                          Get(form, "morning_time", Chars("09:00")))
        t2 == set_setting(t1, "noon_time",
                          Get(form, "noon_time", Chars("13:00")))
        t3 == set_setting(t2, "evening_time",
                          Get(form, "evening_time", Chars("18:00")))
        t4 == set_setting(t3, "report_time",
                          Get(form, "report_time", Chars("20:00")))
        t5 == set_setting(t4, "week_report_time",
                          Get(form, "week_report_time", Chars("18:00")))
    IN  set_setting(t5, "month_report_time",
                    Get(form, "month_report_time", Chars("18:00")))

\* The forms posted to /settings/save: no field, and all five fields.
SettingsForms ==
    {EmptyForm,
     [bot_name |-> Chars("robot"), welcome_message |-> Chars("hi"),
      company_location |-> Chars("hq"), checkin_radius |-> Chars("300"),
      schedule_enabled |-> Chars("false")]}

\* The forms posted to /timing/save: no field, and one field.
TimingForms == {EmptyForm, [morning_time |-> Chars("08:30")]}

\* A POST to /settings/save.
SaveSettings ==
    /\ Quiet
    /\ ops < MaxOps
    /\ \E form \in SettingsForms : settings' = save_settings(settings, form)
    /\ ops' = ops + 1
    /\ UNCHANGED <<attendance, nextId, users, now, local, faults>>

\* A POST to /timing/save.
SaveTiming ==
    /\ Quiet
    /\ ops < MaxOps
    /\ \E form \in TimingForms : settings' = save_timing(settings, form)
    /\ ops' = ops + 1
    /\ UNCHANGED <<attendance, nextId, users, now, local, faults>>

\* The process is started again, lines 832-833: init_db() runs before any
\* request is served.
InitDb(p) ==
    /\ CanStart(p)
    /\ \A q \in Procs : local[q].pc = "idle"
    /\ settings' = init_db(settings)
    /\ local' = [local EXCEPT ![p] =
                    [IdleLocal EXCEPT !.req = "init_db", !.pc = "done"]]
    /\ ops' = ops + 1
    /\ UNCHANGED <<attendance, nextId, users, now, faults>>

Next ==
    \/ \E p \in Procs : CallCheckIn(p)
    \/ \E p \in Procs : CheckInInsert(p)
    \/ \E p \in Procs : CheckInRegister(p)
    \/ \E p \in Procs : CallCheckOut(p)
    \/ \E p \in Procs : CallUpdateProgress(p)
    \/ \E p \in Procs : FeishuCallback(p)
    \/ \E p \in Procs : FeishuWebhook(p)
    \/ \E p \in Procs : ReportStatus(p)
    \/ \E p \in Procs : ReportUsers(p)
    \/ SaveTasks
    \/ SaveStatus
    \/ SaveSettings
    \/ SaveTiming
    \/ \E p \in Procs : InitDb(p)
    \/ \E p \in Procs : Respond(p)

Spec == Init /\ [][Next]_vars

SpecFaults == InitFaults /\ [][Next]_vars

SpecNet == InitNet /\ [][Next]_vars

(* ------------------------------ properties ---------------------------- *)

\* C1: at every moment the ledger holds at most one record for each pair
\* (user identifier, calendar date).
C1_OneRecordPerUserDate ==
    \A i, j \in 1..Len(attendance) :
        (attendance[i].user_id = attendance[j].user_id
         /\ attendance[i].date = attendance[j].date) => i = j

\* A check-in that passed the existence check was rejected by the INSERT
\* while the record of its (user, date) is in the ledger.
C1_Witness ==
    \E p \in Procs :
        /\ local[p].pc = "done" /\ local[p].call = "check_in"
        /\ local[p].fault = "none" /\ local[p].ret.msg = MsgCheckInFailed
        /\ RowsFor(attendance, local[p].user_id, local[p].today) # {}

\* C2: a check_in that starts while a record for (U, today) exists returns
\* the failure "already checked in" and leaves the ledger as it was,
\* whatever its arguments.
C2_SecondCheckInRefused ==
    [][\A p \in Procs :
          (/\ local[p].pc = "idle"
           /\ local'[p].call = "check_in"
           /\ RowsFor(attendance, local'[p].user_id, get_today_date(now')) # {})
          => /\ local'[p].pc = "done"
             /\ local'[p].returned
             /\ local'[p].ret = [ok |-> FALSE, msg |-> MsgAlready]
             /\ attendance' = attendance
             /\ nextId' = nextId]_vars

\* A check_in was refused as "already checked in" although it carried a
\* name other than the one in the record.
C2_Witness ==
    \E p \in Procs :
        /\ local[p].pc = "done" /\ local[p].call = "check_in"
        /\ local[p].ret.msg = MsgAlready
        /\ \E i \in RowsFor(attendance, local[p].user_id, get_today_date(now)) :
                attendance[i].user_name # local[p].user_name

\* C3: a check_out that finds no record for (U, today) returns the failure
\* "not checked in yet" and leaves the ledger as it was.
C3_CheckOutWithoutRecord ==
    [][\A p \in Procs :
          (/\ local[p].pc = "idle"
           /\ local'[p].call = "check_out"
           /\ RowsFor(attendance, local'[p].user_id, get_today_date(now')) = {})
          => /\ local'[p].pc = "done"
             /\ local'[p].returned
             /\ local'[p].ret = [ok |-> FALSE, msg |-> MsgNotCheckedIn]
             /\ attendance' = attendance
             /\ nextId' = nextId]_vars

\* A check_out was refused as "not checked in" while the ledger holds the
\* same user's record of another day.
C3_Witness ==
    \E p \in Procs :
        /\ local[p].pc = "done" /\ local[p].call = "check_out"
        /\ local[p].ret.msg = MsgNotCheckedIn
        /\ \E i \in 1..Len(attendance) :
                /\ attendance[i].user_id = local[p].user_id
                /\ attendance[i].date # get_today_date(now)

\* C4: when check-ins for the same user and day interleave so that each
\* passes the existence check before the other inserts, the ledger ends with
\* exactly one record for that user and day, the record holds all the field
\* values of the one request that reports success, and no two of the
\* requests report success: a request that inserted (and so goes on to
\* report success) finds its own values in the one record, and a request
\* whose insert was rejected reports failure and finds the one record.
C4_RaceOneWinner ==
    LET Inserted(l) ==
            /\ l.call = "check_in"
            /\ l.pc = "check_in_register" \/ (l.pc = "done" /\ l.ret.ok)
        Rejected(l) ==
            /\ l.call = "check_in" /\ l.pc = "done"
            /\ l.ret.msg = MsgCheckInFailed
        Carries(r, l) ==
            /\ r.user_name = l.user_name /\ r.check_in_time = l.current_time
            /\ r.morning_status = l.status /\ r.task = l.task
            /\ r.location = l.location /\ r.tasks_json = l.tasks_json
    IN  \A p \in Procs :
            /\ Inserted(local[p]) =>
                    \E i \in 1..Len(attendance) :
                        /\ RowsFor(attendance, local[p].user_id, local[p].today) = {i}
                        /\ Carries(attendance[i], local[p])
            /\ Rejected(local[p]) =>
                    /\ ~local[p].ret.ok
                    /\ Cardinality(RowsFor(attendance, local[p].user_id,
                                           local[p].today)) = 1
            /\ \A q \in Procs \ {p} :
                    ~(/\ Inserted(local[p]) /\ Inserted(local[q])
                      /\ local[p].user_id = local[q].user_id
                      /\ local[p].today = local[q].today)

\* A check-in lost the race: it passed the existence check, its INSERT was
\* rejected, and the record holds the other request's name.
C4_Witness ==
    \E p \in Procs :
        /\ local[p].pc = "done" /\ local[p].call = "check_in"
        /\ local[p].ret.msg = MsgCheckInFailed
        /\ \E i \in RowsFor(attendance, local[p].user_id, local[p].today) :
                attendance[i].user_name # local[p].user_name

\* C5: a record only moves forward.  A record is created only by a check-in
\* and with its check-in time set and no check-out time; it is never deleted;
\* a check-out time is only ever on a record that has a check-in time; and a
\* record that has a check-out time keeps having one.
C5_ForwardOnly ==
    [][/\ Len(attendance') >= Len(attendance)
       /\ \A i \in 1..Len(attendance) :
            /\ attendance'[i].id = attendance[i].id
            /\ attendance'[i].user_id = attendance[i].user_id
            /\ attendance'[i].date = attendance[i].date
            /\ attendance[i].check_in_time # NoTime
            /\ attendance'[i].check_in_time # NoTime
            /\ attendance[i].check_out_time # NoTime
                    => attendance'[i].check_out_time # NoTime
       /\ Len(attendance') > Len(attendance) =>
            /\ Len(attendance') = Len(attendance) + 1
            /\ attendance'[Len(attendance')].check_in_time # NoTime
            /\ attendance'[Len(attendance')].check_out_time = NoTime
            /\ \E p \in Procs :
                    /\ local[p].call = "check_in"
                    /\ local[p].pc = "check_in_insert"
                    /\ local'[p].pc = "check_in_register"
                    /\ attendance'[Len(attendance')].user_id = local[p].user_id
                    /\ attendance'[Len(attendance')].date = local[p].today]_vars

\* An operation ran on a record after its check-out and the record is still
\* checked out: update_progress has just set the progress of such a record.
C5_Witness ==
    \E p \in Procs :
        /\ local[p].pc = "done" /\ local[p].call = "update_progress"
        /\ local[p].returned
        /\ \E i \in RowsFor(attendance, local[p].user_id, get_today_date(now)) :
                /\ attendance[i].check_out_time # NoTime
                /\ attendance[i].progress_status = local[p].progress_status

C7_CheckOutSetsFourFields ==
    [][\A p \in Procs :
        LET l == local'[p]
            today == get_today_date(now')
            rows == RowsFor(attendance, l.user_id, today)
        IN  (local[p].pc = "idle" /\ l.call = "check_out" /\ rows # {})
            => /\ l.pc = "done"
               /\ l.returned
               /\ l.ret = [ok |-> TRUE, msg |-> MsgCheckOutOk(l.completion)]
               /\ Len(attendance') = Len(attendance)
               /\ nextId' = nextId
               /\ \A i \in 1..Len(attendance) :
                    attendance'[i] =
                        IF i \in rows
                        THEN [attendance[i] EXCEPT
                                !.check_out_time = get_current_time(now'),
                                !.completion = l.completion,
                                !.evening_status = EveningLabel,
                                !.work_summary = l.work_summary]
                        ELSE attendance[i]]_vars

\* A check_out with a work summary has succeeded on one record while the
\* ledger holds a record it must not touch.
C7_Witness ==
    \E p \in Procs :
        /\ local[p].pc = "done" /\ local[p].call = "check_out"
        /\ local[p].ret.ok
        /\ \E i, j \in 1..Len(attendance) :
                /\ i # j
                /\ attendance[i].user_id = local[p].user_id
                /\ attendance[i].work_summary = "cut done"
                /\ attendance[i].completion = 100
                /\ attendance[j].check_out_time = NoTime

\* C8: in every reachable state the daily report lists every user that has
\* a record today exactly once in its checked-in section and every active
\* registered user with no record today exactly once in its not-checked-in
\* section, so that no user is in both sections or in neither.  The report
\* shows names; counted name by name, the checked-in section must hold one
\* line per user whose record of today carries the name, and the
\* not-checked-in section one line per active user of that name who has no
\* record today.
C8_ReportPartition ==
    LET today == get_today_date(now)
        report == build_daily_report(get_today_status(attendance, today),
                                     get_all_users(users), today)
        Names == {attendance[i].user_name : i \in 1..Len(attendance)}
                 \cup {users[j].user_name : j \in 1..Len(users)}
        Present(n) == {attendance[i].user_id : i \in
                        {k \in 1..Len(attendance) :
                            /\ attendance[k].date = today
                            /\ attendance[k].user_name = n}}
        Absent(n) == {users[j].user_id : j \in
                        {k \in 1..Len(users) :
                            /\ users[k].is_active = 1
                            /\ users[k].user_name = n
                            /\ RowsFor(attendance, users[k].user_id, today) = {}}}
    IN  \A n \in Names :
            /\ Cardinality({i \in 1..Len(report.checked_in) :
                              report.checked_in[i].name = n})
                    = Cardinality(Present(n))
            /\ Cardinality({i \in 1..Len(report.not_checked_in) :
                              report.not_checked_in[i] = n})
                    = Cardinality(Absent(n))

\* The report command has sent a report in which an active registered user
\* without a record today is missing from the not-checked-in section.
C8_Witness ==
    \E p \in Procs :
        /\ local[p].pc = "done" /\ local[p].req = "feishu_webhook"
        /\ local[p].sent # <<>>
        /\ local[p].sent[1].msg_type = "post"
        /\ \E j \in 1..Len(users) :
                /\ users[j].is_active = 1
                /\ RowsFor(attendance, users[j].user_id,
                           local[p].sent[1].content.today) = {}
                /\ \A i \in 1..Len(local[p].sent[1].content.not_checked_in) :
                        local[p].sent[1].content.not_checked_in[i]
                            # users[j].user_name

\* C9 (amended): feishu_webhook ends every request with a JSON body and no
\* exception leaves it.  The body is {code: 0, message: "ok"} unless an
\* exception reached the handler's except branch; then the failure is logged
\* and the body is {code: 500, message: "internal error"}.  A connection
\* fault in the registration and a storage fault while the settings or the
\* report data are read reach that branch; whenever a message was sent the
\* body is the success acknowledgment.
C9_WebhookAcknowledges ==
    \A p \in Procs :
        (local[p].req = "feishu_webhook" /\ local[p].pc = "done")
        => /\ ~local[p].raised
           /\ local[p].resp = AckOk \/ local[p].resp = AckError
           /\ local[p].resp = AckError <=> local[p].logged > 0
           /\ local[p].fault \in {"register_connect", "settings", "report"}
                    => local[p].resp = AckError
           /\ local[p].sent # <<>> => local[p].resp = AckOk

\* The sender was registered, then the settings could not be read: the
\* handler logged the failure and answered code 500.
C9_Witness ==
    \E p \in Procs :
        /\ local[p].req = "feishu_webhook" /\ local[p].pc = "done"
        /\ local[p].fault = "settings"
        /\ local[p].resp = AckError
        /\ \E j \in 1..Len(users) :
                /\ users[j].user_id = local[p].user_id
                /\ users[j].user_name = local[p].user_name

\* C9 as stated: whatever the payload and whatever fails, feishu_webhook
\* answers {code: 0, message: "ok"}.
C9_AsStated ==
    \A p \in Procs :
        (local[p].req = "feishu_webhook" /\ local[p].pc = "done")
        => local[p].resp = AckOk

\* C10 (amended): feishu_callback ends every request with a JSON body and no
\* exception leaves it.  A failing statement inside check_in or check_out is
\* caught there: the operator is sent the "failed, please retry" message and
\* the body is {code: 0, message: "ok"}.  An exception that reaches the
\* handler's except branch (the body or the operator, action or value is no
\* object, or the ledger function cannot open its connection) is logged and
\* the body is {code: 500, message: "internal error"}.
C10_CallbackAcknowledges ==
    \A p \in Procs :
        (local[p].req = "feishu_callback" /\ local[p].pc = "done")
        => LET l == local[p] IN
           /\ ~l.raised
           /\ l.resp = AckOk \/ l.resp = AckError
           /\ l.resp = AckError <=> (l.logged > 0 /\ ~l.returned)
           /\ l.fault \in {"execute", "register_connect"}
                => /\ l.resp = AckOk
                   /\ l.returned /\ ~l.ret.ok
                   /\ l.ret.msg \in {MsgCheckInFailed, MsgCheckOutFailed}
                   /\ l.sent = <<TextMessage([kind |-> "mention",
                                              name |-> l.user_name,
                                              msg |-> l.ret.msg])>>
           /\ l.fault = "connect" => (l.resp = AckError /\ l.sent = <<>>)
           /\ (l.call = "none" /\ l.logged > 0) => l.resp = AckError

\* The check-out of a button press met a failing statement: check_out
\* caught it, the operator was told to retry, the body is the success
\* acknowledgment.
C10_Witness ==
    \E p \in Procs :
        /\ local[p].req = "feishu_callback" /\ local[p].pc = "done"
        /\ local[p].call = "check_out"
        /\ local[p].fault = "execute"
        /\ local[p].logged = 1
        /\ local[p].ret.msg = MsgCheckOutFailed
        /\ local[p].resp = AckOk

\* C10 as stated: whatever fails while the operator and the button payload
\* are extracted or the check-in or check-out is performed, feishu_callback
\* answers {code: 0, message: "ok"}.
C10_AsStated ==
    \A p \in Procs :
        (local[p].req = "feishu_callback" /\ local[p].pc = "done")
        => local[p].resp = AckOk

\* C11: the response of either handler and the ledger, the user directory
\* and the settings it leaves are the same whether the outbound send
\* succeeds, is answered with a non-zero code or fails in transport.  In
\* every reachable state in which a request can be taken up, every request
\* to either handler gives, under each failing send outcome, the same thread
\* state (but for the record of the outcome itself) and the same tables as
\* under a successful send; so does every step that a request in progress
\* takes to its send; and a request that has sent a message has answered
\* the success acknowledgment.
C11_SendOutcomeIgnored ==
    LET Mask(l) == [l EXCEPT !.net = "ok", !.send_errors = 0]
        With(l, o) == [l EXCEPT !.net = o]
        Failing == NetSet \ {"ok"}
    IN  /\ \A p \in Procs :
                (/\ local[p].pc = "done" /\ local[p].sent # <<>>
                 /\ local[p].req \in {"feishu_webhook", "feishu_callback"})
                => (local[p].resp = AckOk /\ ~local[p].raised)
        /\ (\E p \in Procs : CanStart(p)) =>
            \A t \in ClockReadings :
                /\ \A req \in CallbackRequests :
                    LET b == feishu_callback(req, "none", t, "ok")
                    IN  \A o \in Failing :
                            LET a == feishu_callback(req, "none", t, o)
                            IN  Mask(a.l) = b.l /\ a.attendance = b.attendance
                /\ \A req \in WebhookRequests :
                    LET b == feishu_webhook(req, "none", "none", "ok")
                    IN  \A o \in Failing :
                            LET a == feishu_webhook(req, "none", "none", o)
                            IN  Mask(a.l) = b.l /\ a.users = b.users
        /\ \A p \in Procs, o \in Failing, t \in ClockReadings :
                LET l == local[p] IN
                /\ l.pc = "report_users" =>
                        Mask(report_users(With(l, o), "none", t))
                            = report_users(With(l, "ok"), "none", t)
                /\ (/\ l.req = "feishu_callback"
                    /\ l.pc \in {"check_in_insert", "check_in_register"}) =>
                        \A ok \in BOOLEAN :
                        \A msg \in {MsgCheckInFailed, MsgCheckInOk(l.status, l.task)} :
                            Mask(LedgerReturn(With(l, o), ok, msg))
                                = LedgerReturn(With(l, "ok"), ok, msg)

\* The check-out of a button press was recorded, the send of its message
\* failed in transport and was logged, and the response is the success
\* acknowledgment.
C11_Witness ==
    \E p \in Procs :
        /\ local[p].req = "feishu_callback" /\ local[p].pc = "done"
        /\ local[p].call = "check_out" /\ local[p].ret.ok
        /\ local[p].net = "transport" /\ local[p].send_errors = 1
        /\ local[p].resp = AckOk
        /\ \E i \in RowsFor(attendance, local[p].user_id, get_today_date(now)) :
                attendance[i].check_out_time # NoTime

\* C12: feishu_webhook never changes the attendance ledger, whatever the
\* message; and for a text message that matches no command it sends exactly
\* one message, the echo of the (stripped) text with the hint to send help,
\* and acknowledges.
C12_WebhookLeavesLedger ==
    [][\A p \in Procs :
        (local'[p].req = "feishu_webhook" /\ local'[p] # local[p])
        => /\ attendance' = attendance
           /\ nextId' = nextId
           /\ (/\ local'[p].pc = "done"
               /\ local'[p].user_name # ""
               /\ local'[p].text \notin CheckInWords \cup CheckOutWords
                                        \cup ReportWords \cup HelpWords)
              => /\ local'[p].sent =
                        <<TextMessage([kind |-> "echo",
                                       received |-> local'[p].text,
                                       hint |-> "send help for commands"])>>
                 /\ local'[p].resp = AckOk]_vars

\* The text "xyz123" was echoed while the ledger holds a record.
C12_Witness ==
    \E p \in Procs :
        /\ local[p].req = "feishu_webhook" /\ local[p].pc = "done"
        /\ local[p].text = <<"xyz123">>
        /\ Len(local[p].sent) = 1
        /\ local[p].sent[1].content.kind = "echo"
        /\ local[p].sent[1].content.received = <<"xyz123">>
        /\ attendance # <<>>

\* The lists of strings of length up to MaxLen over two tags.
Lists == UNION {[1..n -> {"shooting", "subtitles"}] : n \in 0..MaxLen}

\* C13: settings round trip.  In every reachable settings store (looked at
\* whenever no request is in progress; requests in progress do not write
\* it), for each of the keys task_tags and status_options and every list of
\* strings L, after set_setting(key, json.dumps(L)) the text
\* get_setting(key) returns decodes to L and get_all_settings() maps the key
\* to L.
C13_SettingsRoundTrip ==
    (\A p \in Procs : local[p].pc = "idle") =>
        \A key \in {"task_tags", "status_options"}, L \in Lists :
            LET tbl == set_setting(settings, key, json_dumps(L))
            IN  /\ json_loads(get_setting(tbl, key, <<>>))
                        = [kind |-> "list", list |-> L]
                /\ get_all_settings(tbl)[key] = [kind |-> "list", list |-> L]

\* The admin form has stored an encoded list of two tags and the settings
\* read back decode to that list.
C13_Witness ==
    /\ settings["task_tags"] = json_dumps(<<"shooting", "subtitles">>)
    /\ get_all_settings(settings)["task_tags"].kind = "list"
    /\ get_all_settings(settings)["task_tags"].list = <<"shooting", "subtitles">>
    /\ json_loads(get_setting(settings, "task_tags", <<>>)).list
            = <<"shooting", "subtitles">>

\* C14: the settings store is a last-write-wins map.  No seeded key is ever
\* missing, get_setting returns the stored text of a key, and the caller's
\* default for a key that was never stored; and on every reachable store
\* (looked at whenever no request is in progress), after two set_setting of
\* a key, stored before or not, get_setting returns the second value, every
\* other key keeps its value and no key has gone.
C14_LastWriteWins ==
    LET default == Chars("fallback")
        Values == {Chars("first"), Chars("second"), json_dumps(<<"shooting">>)}
    IN  /\ DOMAIN default_settings \subseteq DOMAIN settings
        /\ \A k \in DOMAIN settings : get_setting(settings, k, default) = settings[k]
        /\ get_setting(settings, "never_stored", default) = default
        /\ (\A p \in Procs : local[p].pc = "idle") =>
            \A key \in {"task_tags", "bot_name", "never_stored"} :
            \A v1 \in Values, v2 \in Values :
                LET t1 == set_setting(settings, key, v1)
                    t2 == set_setting(t1, key, v2)
                IN  /\ get_setting(t1, key, default) = v1
                    /\ get_setting(t2, key, default) = v2
                    /\ DOMAIN t2 = DOMAIN settings \cup {key}
                    /\ \A k \in DOMAIN settings \ {key} :
                            get_setting(t2, k, default) = settings[k]

\* The admin form has replaced the seeded task tags by the text "5": that
\* text is what get_setting returns, the other seeded keys are as seeded.
C14_Witness ==
    /\ settings["task_tags"] = Chars("5")
    /\ get_setting(settings, "task_tags", <<>>) = Chars("5")
    /\ get_setting(settings, "bot_name", <<>>) = default_settings["bot_name"]
    /\ get_setting(settings, "never_stored", <<>>) = <<>>

\* C15: after feishu_webhook has handled a text message from U, and after
\* feishu_callback has handled a card action from U (a check-in that
\* succeeded, a check-in refused as already checked in, or a check-out), U
\* is in the user directory.
C15_UserRegistered ==
    \A p \in Procs :
        LET l == local[p] IN
        (/\ l.pc = "done" /\ l.resp = AckOk /\ l.user_id \in Users
         /\ \/ l.req = "feishu_webhook" /\ l.user_name # ""
            \/ /\ l.req = "feishu_callback" /\ l.returned
               /\ \/ l.call = "check_in" /\ (l.ret.ok \/ l.ret.msg = MsgAlready)
                  \/ l.call = "check_out")
        => \E j \in 1..Len(users) : users[j].user_id = l.user_id

\* A check-out press of a user who is not in the directory was handled and
\* acknowledged, and the user is still not in the directory.
C15_Witness ==
    \E p \in Procs :
        /\ local[p].req = "feishu_callback" /\ local[p].pc = "done"
        /\ local[p].call = "check_out" /\ local[p].returned
        /\ local[p].resp = AckOk
        /\ local[p].user_id \in Users
        /\ \A j \in 1..Len(users) : users[j].user_id # local[p].user_id

\* Once in the user directory, a user is never removed from it.
UsersNeverRemoved ==
    [][\A j \in 1..Len(users) :
            \E k \in 1..Len(users') : users'[k].user_id = users[j].user_id]_vars

C17_CardFromStatusOptions ==
    \A p \in Procs :
        LET l == local[p]
            opts == get_all_settings(settings)["status_options"]
            n == IF Len(opts.list) < 6 THEN Len(opts.list) ELSE 6
        IN  (/\ l.pc = "done" /\ l.req = "feishu_webhook" /\ l.resp = AckOk
             /\ l.text \in CheckInWords
             /\ opts.kind = "list")
            => /\ Len(l.sent) = 1
               /\ l.sent[1].msg_type = "interactive"
               /\ l.sent[1].buttons =
                      [i \in 1..n |-> [action |-> "checkin",
                                       status |-> opts.list[i]]]

\* A check-in card has been sent after the admin saved a status list other
\* than the default one.
C17_Witness ==
    \E p \in Procs :
        /\ local[p].pc = "done" /\ local[p].req = "feishu_webhook"
        /\ local[p].resp = AckOk
        /\ local[p].text \in CheckInWords
        /\ Len(local[p].sent) = 1
        /\ settings["status_options"] = json_dumps(<<"remote">>)

\* With the default status list stored, the check-in card has the four
\* default options.
CardDefaultOptions ==
    settings["status_options"] = json_dumps(DefaultStatusOptions)
        => C17_CardFromStatusOptions

\* C18: a check-in that creates no record because the user already has a
\* record for the day returns "already checked in", never the generic
\* "check-in failed, please retry", and logs no error; with no storage
\* fault a refused check-in has no other cause.
C18_DuplicateIsDomainConflict ==
    \A p \in Procs :
        LET l == local[p] IN
        (/\ l.call = "check_in" /\ l.returned /\ ~l.ret.ok
         /\ l.fault = "none"
         /\ RowsFor(attendance, l.user_id, l.today) # {})
        => /\ l.ret.msg = MsgAlready
           /\ l.logged = 0

\* A check-in passed its existence check, lost the insert to a concurrent
\* check-in of the same user and day, and has returned.
C18_Witness ==
    \E p \in Procs :
        /\ local[p].call = "check_in" /\ local[p].returned
        /\ ~local[p].ret.ok
        /\ local[p].fault = "none"
        /\ local[p].ret.msg = MsgCheckInFailed
        /\ local[p].logged = 1
        /\ \E j \in 1..Len(attendance) :
                /\ attendance[j].user_id = local[p].user_id
                /\ attendance[j].date = local[p].today

\* C19: check_out on a record that already has a check-out time succeeds
\* again and replaces check-out time, completion and work summary with the
\* values of this call; the record still has a check-out time.
C19_CheckOutOverwrites ==
    \A p \in Procs :
        LET l == local[p] IN
        (/\ l.pc = "done" /\ l.call = "check_out" /\ l.fault = "none"
         /\ l.returned
         /\ l.prev_check_out # NoTime)
        => /\ l.ret.ok
           /\ l.ret.msg = MsgCheckOutOk(l.completion)
           /\ \A i \in RowsFor(attendance, l.user_id, l.today) :
                /\ attendance[i].check_out_time = l.current_time
                /\ attendance[i].check_out_time # NoTime
                /\ attendance[i].completion = l.completion
                /\ attendance[i].work_summary = l.work_summary
           /\ RowsFor(attendance, l.user_id, l.today) # {}

\* A second check-out, later than the first and with another completion and
\* another summary, has succeeded.
C19_Witness ==
    \E p \in Procs :
        /\ local[p].pc = "done" /\ local[p].call = "check_out"
        /\ local[p].ret.ok
        /\ local[p].prev_check_out # NoTime
        /\ local[p].prev_check_out # local[p].current_time
        /\ local[p].completion = 100
        /\ \E i \in RowsFor(attendance, local[p].user_id, local[p].today) :
                /\ attendance[i].check_out_time = local[p].current_time
                /\ attendance[i].completion = 100

\* C20: update_progress(U, p) that meets no storage fault returns success
\* and changes nothing but the progress status of U's record of today,
\* whether or not that record has a check-out time: every other field of
\* it, every other record, the number of records and the users are as
\* before; with no record of U today the table is unchanged.
C20_ProgressFrame ==
    [][\A p \in Procs :
        (/\ local[p].pc = "idle"
         /\ local'[p].call = "update_progress"
         /\ local'[p].fault = "none")
        => LET uid == local'[p].user_id
               today == get_today_date(now')
           IN  /\ local'[p].returned /\ local'[p].ret.ok
               /\ ~local'[p].raised
               /\ Len(attendance') = Len(attendance)
               /\ nextId' = nextId
               /\ users' = users
               /\ \A i \in 1..Len(attendance) :
                    IF attendance[i].user_id = uid /\ attendance[i].date = today
                    THEN attendance'[i] =
                            [attendance[i] EXCEPT
                                !.progress_status = local'[p].progress_status]
                    ELSE attendance'[i] = attendance[i]
               /\ RowsFor(attendance, uid, today) = {}
                    => attendance' = attendance]_vars

\* update_progress has returned success for a user who has no record today
\* while another user has one, and no record carries a progress status.
C20_Witness ==
    \E p \in Procs :
        /\ local[p].pc = "done" /\ local[p].call = "update_progress"
        /\ local[p].returned /\ local[p].ret.ok
        /\ RowsFor(attendance, local[p].user_id, get_today_date(now)) = {}
        /\ attendance # <<>>
        /\ \A i \in 1..Len(attendance) : attendance[i].progress_status = NULL

\* C21: an ignored input has no effect.  A webhook payload that is empty or
\* an object that is no text event, a callback payload that is an object of
\* another type, and a button press whose action is neither "checkin" nor
\* "checkout" are answered with the success acknowledgment; nothing is
\* sent, no ledger function is entered, and the step that handles them
\* leaves attendance, users and settings as they were.  The handlers'
\* results are compared in every state in which such a request is taken up.
C21_IgnoredInputs ==
    [][LET Ignored(l) ==
            /\ l.pc = "done" /\ l.resp = AckOk /\ l.call = "none"
            /\ l.sent = <<>> /\ l.logged = 0
            /\ \/ l.req = "feishu_callback"
               \/ l.req = "feishu_webhook" /\ l.user_name = ""
        NotText ==
            {r \in WebhookRequests :
                /\ r.parse_ok
                /\ \/ Falsy(r.data)
                   \/ IsDict(r.data) /\ Get(r.data, "msg_type", NULL) # "text"}
        NotInteractive ==
            {r \in CallbackRequests :
                /\ r.parse_ok /\ IsDict(r.data)
                /\ Get(r.data, "type", NULL) # "interactive"}
        OtherAction ==
            {r \in CallbackRequests :
                /\ r.parse_ok /\ IsDict(r.data)
                /\ Get(r.data, "type", NULL) = "interactive"
                /\ IsDict(Get(r.data, "action", EmptyDict))
                /\ IsDict(Get(r.data, "operator", EmptyDict))
                /\ IsDict(Get(Get(r.data, "action", EmptyDict), "value", EmptyDict))
                /\ Get(Get(Get(r.data, "action", EmptyDict), "value", EmptyDict),
                       "action", NULL) \notin {"checkin", "checkout"}}
    IN  /\ (\E p \in Procs : local[p].pc = "idle" /\ Ignored(local'[p])) =>
                /\ NotText # {} /\ NotInteractive # {} /\ OtherAction # {}
                /\ \A r \in NotText, f \in FaultSet, g \in FaultSet, o \in NetSet :
                        LET w == feishu_webhook(r, f, g, o)
                        IN  Ignored(w.l) /\ w.users = users
                /\ \A r \in NotInteractive \cup OtherAction, f \in FaultSet,
                      o \in NetSet :
                        LET c == feishu_callback(r, f, now, o)
                        IN  /\ Ignored(c.l) /\ c.attendance = attendance
                            /\ ~c.clock_read
        /\ \A p \in Procs :
                (local[p].pc = "idle" /\ Ignored(local'[p]))
                => UNCHANGED <<attendance, nextId, users, settings>>]_vars

\* A button press with an action that is neither "checkin" nor "checkout"
\* has been acknowledged while the ledger holds a record.
C21_Witness ==
    \E p \in Procs :
        /\ local[p].req = "feishu_callback" /\ local[p].pc = "done"
        /\ local[p].call = "none" /\ local[p].resp = AckOk
        /\ local[p].user_name = "alice"
        /\ local[p].sent = <<>>
        /\ attendance # <<>>

C23_RegistrationBestEffort ==
    \A p \in Procs :
        LET l == local[p] IN
        (l.pc = "done" /\ l.fault \in {"register_connect", "register_execute"})
        => /\ ~l.raised
           /\ l.call = "check_in"
                => /\ l.returned /\ l.ret.ok
                   /\ RowsFor(attendance, l.user_id, l.today) # {}
           /\ (/\ l.req = "feishu_webhook"
               /\ ~(/\ l.text \in CheckInWords
                    /\ get_all_settings(settings)["task_tags"].kind = "scalar"))
                => /\ l.resp = AckOk
                   /\ Len(l.sent) = 1

\* check_in inserted its record, register_user could not open its
\* connection, and check_in has returned "check-in failed, please retry"
\* while the record is in the ledger.
C23_Witness ==
    \E p \in Procs :
        /\ local[p].pc = "done" /\ local[p].call = "check_in"
        /\ local[p].fault = "register_connect"
        /\ local[p].returned /\ ~local[p].ret.ok
        /\ local[p].ret.msg = MsgCheckInFailed
        /\ \E i \in RowsFor(attendance, local[p].user_id, local[p].today) :
                attendance[i].user_name = local[p].user_name

\* A registration whose statement fails is swallowed: the caller goes on.
RegisterStatementFaultSwallowed ==
    \A p \in Procs :
        LET l == local[p] IN
        (l.pc = "done" /\ l.fault = "register_execute")
        => /\ ~l.raised
           /\ l.call = "check_in"
                => /\ l.returned /\ l.ret.ok
                   /\ RowsFor(attendance, l.user_id, l.today) # {}
           /\ (/\ l.req = "feishu_webhook"
               /\ ~(/\ l.text \in CheckInWords
                    /\ get_all_settings(settings)["task_tags"].kind = "scalar"))
                => /\ l.resp = AckOk
                   /\ Len(l.sent) = 1

\* C24: the user directory has at most one entry per user identifier in
\* every reachable state, and every step that changes it is a registration
\* of one (id, name): afterwards the entry of id has that name and is
\* active, and the entry of every other user is as before.
C24_UsersUpsert ==
    [][LET Unique(tbl) ==
                \A i, j \in 1..Len(tbl) :
                    tbl[i].user_id = tbl[j].user_id => i = j
           Rows(tbl) == {tbl[i] : i \in 1..Len(tbl)}
       IN  /\ Unique(users) /\ Unique(users')
           /\ users' # users =>
                \E p \in Procs :
                    LET l == local'[p]
                        others == {r \in Rows(users) : r.user_id # l.user_id}
                    IN  /\ \/ l.req = "feishu_webhook" /\ local[p].pc = "idle"
                           \/ l.call = "check_in" /\ local[p].pc = "check_in_register"
                        /\ Rows(users') =
                               others \cup {[user_id |-> l.user_id,
                                             user_name |-> l.user_name,
                                             is_active |-> 1]}]_vars

\* u1, registered as alice by a check-in, has sent a message as bob: the
\* directory holds u1 once, as bob, and u2's entry is still there.
C24_Witness ==
    \E p \in Procs :
        /\ local[p].pc = "done" /\ local[p].req = "feishu_webhook"
        /\ local[p].user_id = "u1" /\ local[p].user_name = "bob"
        /\ \E i \in 1..Len(attendance) :
                attendance[i].user_id = "u1" /\ attendance[i].user_name = "alice"
        /\ Len(users) = 2
        /\ \E i \in 1..Len(users) :
                users[i] = [user_id |-> "u1", user_name |-> "bob", is_active |-> 1]
        /\ \E i \in 1..Len(users) :
                users[i] = [user_id |-> "u2", user_name |-> "alice", is_active |-> 1]

\* C25: the display name stored in an attendance record is the name given
\* to the check-in that created it, and no step changes it: not a
\* registration of the same user under another name, not a check-out, not a
\* progress update.
C25_RecordNameFixed ==
    [][/\ Len(attendance') >= Len(attendance)
       /\ \A i \in 1..Len(attendance) :
            /\ attendance'[i].user_id = attendance[i].user_id
            /\ attendance'[i].user_name = attendance[i].user_name
       /\ Len(attendance') > Len(attendance) =>
            \E p \in Procs :
                /\ local[p].pc = "check_in_insert"
                /\ local'[p].pc = "check_in_register"
                /\ attendance'[Len(attendance')].user_id = local[p].user_id
                /\ attendance'[Len(attendance')].user_name = local[p].user_name]_vars

\* A user whose record of today carries the name alice is in the directory
\* as bob after a later message under that name.
C25_Witness ==
    \E i \in 1..Len(attendance), j \in 1..Len(users), p \in Procs :
        /\ attendance[i].user_id = users[j].user_id
        /\ attendance[i].user_name = "alice"
        /\ users[j].user_name = "bob"
        /\ local[p].req = "feishu_webhook" /\ local[p].pc = "done"
        /\ local[p].user_id = users[j].user_id
        /\ local[p].user_name = "bob"

\* C26: initialization seeds a default only for a key that has no row.  Run
\* again, init_db leaves every stored key with its value, whatever the
\* admin console has stored, and leaves attendance and users as they are;
\* run on a table that lacks some keys it gives exactly those keys their
\* defaults.
C26_InitSeedsAbsentOnly ==
    [][\A p \in Procs :
        (local[p].pc = "idle" /\ local'[p].req = "init_db")
        => /\ settings' = settings
           /\ UNCHANGED <<attendance, nextId, users>>
           /\ \A K \in SUBSET {"task_tags", "bot_name"} :
                LET part == [k \in DOMAIN settings \ K |-> settings[k]]
                    new == init_db(part)
                IN  /\ DOMAIN new = DOMAIN settings
                    /\ \A k \in DOMAIN new :
                        new[k] = IF k \in K THEN default_settings[k]
                                 ELSE settings[k]]_vars

\* init_db has run after the admin console stored task tags other than the
\* default ones, on a ledger that holds a record, and the stored tags are
\* still there.
C26_Witness ==
    \E p \in Procs :
        /\ local[p].req = "init_db" /\ local[p].pc = "done"
        /\ settings["task_tags"] = json_dumps(<<"shooting", "subtitles">>)
        /\ attendance # <<>>
        /\ users # <<>>

\* C27: every admin save writes exactly the keys of its route, each to the
\* submitted text or, when the form omits the field, to the field's
\* fallback, and leaves every other key, attendance and users as they are.
\* Every step of the admin console is the save of one route with one form
\* in this sense, and save_settings and save_timing give that result for
\* every form.
C27_AdminSaveFrame ==
    [][LET SettingsKeys == {"bot_name", "welcome_message", "company_location",
                            "checkin_radius", "schedule_enabled"}
           TimingKeys == {"morning_time", "noon_time", "evening_time",
                          "report_time", "week_report_time",
                          "month_report_time"}
           Fallback ==
                [bot_name |-> Chars("attendance helper"),
                 welcome_message |-> Chars("hello"),
                 company_location |-> Chars(""),
                 checkin_radius |-> Chars("500"),
                 schedule_enabled |-> Chars("true"),
                 morning_time |-> Chars("09:00"),
                 noon_time |-> Chars("13:00"),
                 evening_time |-> Chars("18:00"),
                 report_time |-> Chars("20:00"),
                 week_report_time |-> Chars("18:00"),
                 month_report_time |-> Chars("18:00"),
                 task_tags |-> json_dumps(<<>>),
                 status_options |-> json_dumps(<<>>)]
           Saved(tbl, new, keys, form) ==
                /\ DOMAIN new = DOMAIN tbl \cup keys
                /\ \A k \in DOMAIN new :
                        new[k] = IF k \in keys THEN Get(form, k, Fallback[k])
                                 ELSE tbl[k]
       IN  (local' = local /\ ops' = ops + 1) =>
                /\ UNCHANGED <<attendance, nextId, users>>
                /\ \/ \E form \in SettingsForms :
                            Saved(settings, settings', SettingsKeys, form)
                   \/ \E form \in TimingForms :
                            Saved(settings, settings', TimingKeys, form)
                   \/ \E f \in SaveForms :
                            Saved(settings, settings', {"task_tags"},
                                  IF f = <<>> THEN EmptyForm
                                  ELSE [task_tags |-> f])
                   \/ \E f \in StatusForms :
                            Saved(settings, settings', {"status_options"},
                                  [status_options |-> f])
                /\ \A form \in SettingsForms :
                        Saved(settings, save_settings(settings, form),
                              SettingsKeys, form)
                /\ \A form \in TimingForms :
                        Saved(settings, save_timing(settings, form),
                              TimingKeys, form)]_vars

\* A form without fields was posted to /settings/save after the morning
\* time was changed: the welcome message is its fallback, not the seeded
\* text, the morning time is as stored, and the ledger holds its record.
C27_Witness ==
    /\ settings["welcome_message"] = Chars("hello")
    /\ settings["bot_name"] = Chars("attendance helper")
    /\ settings["morning_time"] = Chars("08:30")
    /\ settings["task_tags"] = json_dumps(DefaultTaskTags)
    /\ attendance # <<>>
    /\ users # <<>>

====
